---- MODULE Spec2Model ----
(***************************************************************************)
(* Smart Flashcards backend (src/index.js, src/Models/FlashCard.js).       *)
(*                                                                         *)
(* JavaScript strings are sequences of one-character strings, so that      *)
(* trim, toLowerCase, parseInt and the \b...\b regular expression are      *)
(* computed character by character as the engine computes them.            *)
(* JavaScript values are records [t, s, n]: t the type tag, s the          *)
(* characters of a string, n the value of a number.                        *)
(***************************************************************************)
EXTENDS Integers, Sequences, FiniteSets

VARIABLES
  db,        \* the flashcards collection: the stored documents, in insertion order
  response,  \* the response of the request being answered (status 0: none)
  locals,    \* the local variables of the handler that produced the response
  input,     \* the argument of a direct call of inferSubject
  out        \* what that call did: not called yet, returned a label, or threw

vars == <<db, response, locals, input, out>>

---------------------------------------------------------------------------
(* Bounds of the model *)

\* stored cards in the service model
MaxCards == 4
\* stored cards the sampler is run on when the collection is drawn directly
MaxSample == 4
\* pieces a classified text is assembled from
MaxPieces == 3

---------------------------------------------------------------------------
(* JavaScript values *)

Undefined == [t |-> "undefined", s |-> <<>>, n |-> 0]
Null      == [t |-> "null", s |-> <<>>, n |-> 0]
Str(s)    == [t |-> "string", s |-> s, n |-> 0]
Num(n)    == [t |-> "number", s |-> <<>>, n |-> n]
NaN       == [t |-> "NaN", s |-> <<>>, n |-> 0]
Bool(b)   == [t |-> "boolean", s |-> <<>>, n |-> IF b THEN 1 ELSE 0]
Obj       == [t |-> "object", s |-> <<>>, n |-> 0]

\* ToBoolean: undefined, null, "", 0, NaN and false are falsy
Truthy(v) ==
  CASE v.t = "string"  -> v.s # <<>>
    [] v.t = "number"  -> v.n # 0
    [] v.t = "boolean" -> v.n = 1
    [] v.t = "object"  -> TRUE
    [] OTHER           -> FALSE

\* a || b
OrElse(a, b) == IF Truthy(a) THEN a ELSE b

UpperLetters ==
  <<"A","B","C","D","E","F","G","H","I","J","K","L","M",
    "N","O","P","Q","R","S","T","U","V","W","X","Y","Z">>

LowerLetters ==
  <<"a","b","c","d","e","f","g","h","i","j","k","l","m",
    "n","o","p","q","r","s","t","u","v","w","x","y","z">>

Digits == <<"0","1","2","3","4","5","6","7","8","9">>

Range(s) == {s[i] : i \in DOMAIN s}

\* the characters String.prototype.trim strips (those the model's texts use)
WhiteSpace == {" ", "\t", "\n"}

\* the regular expression class \w, without the u flag: [A-Za-z0-9_]
WordChars == Range(UpperLetters) \cup Range(LowerLetters) \cup Range(Digits) \cup {"_"}

IsWordChar(c) == c \in WordChars

LowerOf ==
  [c \in Range(UpperLetters) |->
     LowerLetters[CHOOSE i \in DOMAIN UpperLetters : UpperLetters[i] = c]]

UpperOf ==
  [c \in Range(LowerLetters) |->
     UpperLetters[CHOOSE i \in DOMAIN LowerLetters : LowerLetters[i] = c]]

\* one character of String.prototype.toLowerCase
ToLowerChar(c) == IF c \in DOMAIN LowerOf THEN LowerOf[c] ELSE c

\* String.prototype.toLowerCase
ToLowerCase(s) == [i \in DOMAIN s |-> ToLowerChar(s[i])]

\* one character of the regular expression's Canonicalize under the i flag
ToUpperChar(c) == IF c \in DOMAIN UpperOf THEN UpperOf[c] ELSE c

RECURSIVE TrimStart(_)
TrimStart(s) ==
  IF s # <<>> /\ Head(s) \in WhiteSpace THEN TrimStart(Tail(s)) ELSE s

RECURSIVE TrimEnd(_)
TrimEnd(s) ==
  IF s # <<>> /\ s[Len(s)] \in WhiteSpace THEN TrimEnd(SubSeq(s, 1, Len(s) - 1)) ELSE s

\* String.prototype.trim
Trim(s) == TrimEnd(TrimStart(s))

---------------------------------------------------------------------------
(* SUBJECT_KEYWORDS, in declaration order, each list as written *)

PhysicsKeywords ==
  <<<<"f","o","r","c","e">>,
    <<"a","c","c","e","l","e","r","a","t","i","o","n">>,
    <<"e","n","e","r","g","y">>,
    <<"g","r","a","v","i","t","y">>,
    <<"l","a","w">>,
    <<"m","o","t","i","o","n">>,
    <<"m","a","s","s">>,
    <<"v","e","l","o","c","i","t","y">>,
    <<"i","n","e","r","t","i","a">>,
    <<"m","o","m","e","n","t","u","m">>,
    <<"s","p","e","e","d">>,
    <<"n","e","w","t","o","n">> >>

BiologyKeywords ==
  <<<<"c","e","l","l">>,
    <<"p","h","o","t","o","s","y","n","t","h","e","s","i","s">>,
    <<"o","r","g","a","n","i","s","m">>,
    <<"p","l","a","n","t">>,
    <<"a","n","i","m","a","l">>,
    <<"d","n","a">>,
    <<"e","n","z","y","m","e">>,
    <<"m","i","t","o","s","i","s">>,
    <<"e","c","o","l","o","g","y">>,
    <<"e","v","o","l","u","t","i","o","n">>,
    <<"p","h","o","t","o","s","y","n","t","h","e","s","i","s">> >>

ChemistryKeywords ==
  <<<<"a","t","o","m">>,
    <<"m","o","l","e","c","u","l","e">>,
    <<"r","e","a","c","t","i","o","n">>,
    <<"a","c","i","d">>,
    <<"b","a","s","e">>,
    <<"c","o","m","p","o","u","n","d">>,
    <<"e","l","e","m","e","n","t">>,
    <<"p","e","r","i","o","d","i","c">>,
    <<"p","h">>,
    <<"s","t","o","i","c","h","i","o","m","e","t","r","y">>,
    <<"b","o","n","d">> >>

MathematicsKeywords ==
  <<<<"e","q","u","a","t","i","o","n">>,
    <<"t","h","e","o","r","e","m">>,
    <<"a","l","g","e","b","r","a">>,
    <<"g","e","o","m","e","t","r","y">>,
    <<"i","n","t","e","g","r","a","t","i","o","n">>,
    <<"d","e","r","i","v","a","t","i","v","e">>,
    <<"c","a","l","c","u","l","u","s">>,
    <<"m","a","t","r","i","x">>,
    <<"p","r","o","b","a","b","i","l","i","t","y">>,
    <<"s","t","a","t","i","s","t","i","c","s">> >>

HistoryKeywords ==
  <<<<"w","a","r">>,
    <<"e","m","p","i","r","e">>,
    <<"k","i","n","g">>,
    <<"r","e","v","o","l","u","t","i","o","n">>,
    <<"a","n","c","i","e","n","t">>,
    <<"c","i","v","i","l","i","z","a","t","i","o","n">>,
    <<"t","r","e","a","t","y">>,
    <<"c","o","l","o","n","y">>,
    <<"t","i","m","e","l","i","n","e">> >>

ComputerScienceKeywords ==
  <<<<"a","l","g","o","r","i","t","h","m">>,
    <<"d","a","t","a"," ","s","t","r","u","c","t","u","r","e">>,
    <<"c","o","m","p","l","e","x","i","t","y">>,
    <<"a","r","r","a","y">>,
    <<"t","r","e","e">>,
    <<"g","r","a","p","h">>,
    <<"h","a","s","h">>,
    <<"d","a","t","a","b","a","s","e">>,
    <<"s","q","l">>,
    <<"a","p","i">>,
    <<"t","h","r","e","a","d">>,
    <<"c","o","n","c","u","r","r","e","n","c","y">> >>

SUBJECT_KEYWORDS ==
  << [subject |-> "Physics",         keywords |-> PhysicsKeywords],
     [subject |-> "Biology",         keywords |-> BiologyKeywords],
     [subject |-> "Chemistry",       keywords |-> ChemistryKeywords],
     [subject |-> "Mathematics",     keywords |-> MathematicsKeywords],
     [subject |-> "History",         keywords |-> HistoryKeywords],
     [subject |-> "ComputerScience", keywords |-> ComputerScienceKeywords] >>

General == "General"

---------------------------------------------------------------------------
(* inferSubject *)

\* the characters kw.replace(/[.*+?^${}()|[\]\\]/g, '\\$&') puts a backslash before
RegExpSpecial == {".", "*", "+", "?", "^", "$", "{", "}", "(", ")", "|", "[", "]", "\\"}

\* The pattern between the two \b: one atom per character of the keyword. An
\* escaped character and an unescaped ordinary character both match that
\* character literally; an unescaped special character would be an operator.
PatternAtoms(kw) ==
  [i \in DOMAIN kw |-> [char |-> kw[i], literal |-> TRUE]]

\* \b at the gap before position i of t (1 .. Len(t)+1)
WordBoundary(t, i) ==
  LET before == i > 1 /\ IsWordChar(t[i - 1])
      after  == i <= Len(t) /\ IsWordChar(t[i])
  IN  before # after

\* new RegExp(`\\b${escaped kw}\\b`, 'i').test(t)
RegExpTest(kw, t) ==
  LET atoms == PatternAtoms(kw)
      n     == Len(atoms)
  IN  \E p \in 1 .. (Len(t) - n + 1) :
        /\ WordBoundary(t, p)
        /\ \A k \in 1 .. n :
             /\ atoms[k].literal
             /\ ToUpperChar(t[p + k - 1]) = ToUpperChar(atoms[k].char)
        /\ WordBoundary(t, p + n)

\* the inner loop: count++ for every entry of the list whose pattern matches
CountHits(keywords, t) ==
  Cardinality({i \in DOMAIN keywords : RegExpTest(keywords[i], t)})

\* scores, as Object.entries(scores): the subjects with count > 0, in the
\* order they were inserted, which is the declaration order
RECURSIVE ScoreEntriesFrom(_, _)
ScoreEntriesFrom(i, t) ==
  IF i > Len(SUBJECT_KEYWORDS) THEN <<>>
  ELSE LET count == CountHits(SUBJECT_KEYWORDS[i].keywords, t)
           rest  == ScoreEntriesFrom(i + 1, t)
       IN  IF count > 0
             THEN <<[subject |-> SUBJECT_KEYWORDS[i].subject, count |-> count]>> \o rest
             ELSE rest

ScoreEntries(t) == ScoreEntriesFrom(1, t)

\* the comparator (a, b) => b[1] - a[1]
CompareDesc(a, b) == b.count - a.count

\* a sort step that puts e in front of the elements it ties with
RECURSIVE InsertBeforeEqual(_, _)
InsertBeforeEqual(e, sorted) ==
  IF sorted = <<>> THEN <<e>>
  ELSE IF CompareDesc(Head(sorted), e) < 0
         THEN <<Head(sorted)>> \o InsertBeforeEqual(e, Tail(sorted))
         ELSE <<e>> \o sorted

\* one step of a stable sort: e goes behind every element it does not precede
RECURSIVE InsertStable(_, _)
InsertStable(e, sorted) ==
  IF sorted = <<>> THEN <<e>>
  ELSE IF CompareDesc(Head(sorted), e) <= 0
         THEN <<Head(sorted)>> \o InsertStable(e, Tail(sorted))
         ELSE <<e>> \o sorted

\* Array.prototype.sort, which is stable
RECURSIVE SortEntries(_)
SortEntries(entries) ==
  IF entries = <<>> THEN <<>>
  ELSE InsertStable(entries[Len(entries)], SortEntries(SubSeq(entries, 1, Len(entries) - 1)))

Returned(label) == [threw |-> FALSE, value |-> label]
Threw == [threw |-> TRUE, value |-> "TypeError"]

\* inferSubject(text): the label it returns, or the TypeError of text.trim()
\* on a truthy value that is no string
inferSubject(text) ==
  IF ~Truthy(text) THEN Returned(General)
  ELSE IF text.t # "string" THEN Threw
  ELSE IF Trim(text.s) = <<>> THEN Returned(General)
  ELSE LET t       == ToLowerCase(text.s)
           entries == ScoreEntries(t)
       IN  IF Len(entries) = 0 THEN Returned(General)
           ELSE Returned(SortEntries(entries)[1].subject)

---------------------------------------------------------------------------
(* Numbers of the get-subject handler *)

DigitValue(c) == (CHOOSE i \in DOMAIN Digits : Digits[i] = c) - 1

\* the value of the longest prefix of decimal digits of s, read after acc
RECURSIVE DigitsPrefix(_, _, _)
DigitsPrefix(s, acc, seen) ==
  IF s # <<>> /\ Head(s) \in Range(Digits)
    THEN DigitsPrefix(Tail(s), 10 * acc + DigitValue(Head(s)), TRUE)
    ELSE [value |-> acc, seen |-> seen]

\* parseInt(s) of a string without a 0x prefix: leading white space is
\* skipped, then an optional sign, then the longest prefix of digits; NaN
\* when there is no digit
ParseInt(s) ==
  LET body   == TrimStart(s)
      signed == body # <<>> /\ Head(body) \in {"-", "+"}
      sign   == IF body # <<>> /\ Head(body) = "-" THEN -1 ELSE 1
      digits == DigitsPrefix(IF signed THEN Tail(body) ELSE body, 0, FALSE)
  IN  IF digits.seen THEN Num(sign * digits.value) ELSE NaN

\* Math.min and Math.max of two arguments: NaN when either is NaN
MathMin(a, b) ==
  IF a.t = "NaN" \/ b.t = "NaN" THEN NaN ELSE IF a.n <= b.n THEN a ELSE b

MathMax(a, b) ==
  IF a.t = "NaN" \/ b.t = "NaN" THEN NaN ELSE IF a.n >= b.n THEN a ELSE b

\* length < limit and length >= limit: both false when limit is NaN
LessThan(length, limit) == limit.t = "number" /\ length < limit.n

AtLeast(length, limit) == limit.t = "number" /\ length >= limit.n

\* the default of the limit query parameter, '5'
DefaultLimit == Str(<<"5">>)

\* Math.max(1, Math.min(100, parseInt(req.query.limit || '5')))
LimitOf(rawLimit) ==
  MathMax(Num(1), MathMin(Num(100), ParseInt(OrElse(rawLimit, DefaultLimit).s)))

\* String(req.query.student_id || '').trim()
StudentIdOf(rawStudent) == Trim(OrElse(rawStudent, Str(<<>>)).s)

---------------------------------------------------------------------------
(* The flashcards collection *)

\* a stored subject that is missing (or empty): falsy in c.subject || 'General'
NoSubject == ""

\* a document built without the inferred subject
NewDocumentUnclassified(student_id, question, answer, subject) ==
  [_id        |-> Len(db) + 1,
   student_id |-> student_id.s,
   question   |-> question.s,
   answer     |-> answer.s,
   subject    |-> "Unclassified",
   createdAt  |-> Len(db) + 1]

\* new Flashcard({ student_id, question, answer, subject }): the schema's
\* fields, _id and createdAt set on construction (a logical clock here)
NewDocument(student_id, question, answer, subject) ==
  [_id        |-> Len(db) + 1,
   student_id |-> student_id.s,
   question   |-> question.s,
   answer     |-> answer.s,
   subject    |-> subject,
   createdAt  |-> Len(db) + 1]

\* doc.save(): the collection afterwards
Saved(doc, stored) == IF stored THEN Append(db, doc) ELSE db

\* a find without its filter
FindAll(student_id) == db

\* Flashcard.find({ student_id }).lean()
Find(student_id) == SelectSeq(db, LAMBDA c : c.student_id = student_id)

---------------------------------------------------------------------------
(* shuffleInPlace *)

\* a swap that loses arr[i]
SwapOverwriting(arr, i, j) == [arr EXCEPT ![i] = arr[j]]

\* [arr[i], arr[j]] = [arr[j], arr[i]]
Swap(arr, i, j) == [arr EXCEPT ![i] = arr[j], ![j] = arr[i]]

\* the values Math.floor(Math.random() * (i + 1)) can take in one run of the
\* loop over an array of n elements (1-based: the draw for index i is in 1..i)
RandomDraws(n) == {js \in [2 .. n -> 1 .. n] : \A i \in 2 .. n : js[i] <= i}

\* the loop from index i down to 2, with the draws js
RECURSIVE FisherYates(_, _, _)
FisherYates(arr, i, js) ==
  IF i < 2 THEN arr ELSE FisherYates(Swap(arr, i, js[i]), i - 1, js)

\* every array shuffleInPlace(arr) can leave behind
ShuffleOutcomes(arr) == {FisherYates(arr, Len(arr), js) : js \in RandomDraws(Len(arr))}

---------------------------------------------------------------------------
(* GET /get-subject: the sampling *)

\* c.subject || 'General'
BucketKey(c) == IF c.subject # NoSubject THEN c.subject ELSE General

\* bySubject as the sequence of its entries [key, arr], in insertion order
RECURSIVE GroupBySubject(_, _)
GroupBySubject(cards, bySubject) ==
  IF cards = <<>> THEN bySubject
  ELSE LET c == Head(cards)
           s == BucketKey(c)
           known == \E b \in DOMAIN bySubject : bySubject[b].key = s
           withKey == IF known THEN bySubject
                      ELSE Append(bySubject, [key |-> s, arr |-> <<>>])
           pushed == [b \in DOMAIN withKey |->
                        IF withKey[b].key = s
                          THEN [withKey[b] EXCEPT !.arr = Append(@, c)]
                          ELSE withKey[b]]
       IN  GroupBySubject(Tail(cards), pushed)

\* the loop shuffleInPlace(bySubject[key]) over Object.keys(bySubject)
RECURSIVE ShuffledBuckets(_)
ShuffledBuckets(bySubject) ==
  IF bySubject = <<>> THEN {<<>>}
  ELSE {<<[key |-> Head(bySubject).key, arr |-> arr]>> \o rest :
          arr \in ShuffleOutcomes(Head(bySubject).arr),
          rest \in ShuffledBuckets(Tail(bySubject))}

\* Object.keys(bySubject)
KeysOf(bySubject) == [b \in DOMAIN bySubject |-> bySubject[b].key]

\* { question, answer, subject } of a card, with the _id it was taken under
Picked(c) ==
  [item |-> [question |-> c.question, answer |-> c.answer, subject |-> c.subject],
   _id  |-> c._id]

\* a pass 1 that takes from the first subject of the list at every turn
RECURSIVE RoundRobinSameSubject(_, _, _, _)
RoundRobinSameSubject(i, subjects, st, limit) ==
  IF ~(i <= Len(subjects) /\ LessThan(Len(st.result), limit)) THEN st
  ELSE LET b   == CHOOSE k \in DOMAIN st.bySubject : st.bySubject[k].key = subjects[1]
           arr == st.bySubject[b].arr
       IN  IF Len(arr) > 0
             THEN RoundRobinSameSubject(i + 1, subjects,
                    [bySubject |-> [st.bySubject EXCEPT ![b].arr = Tail(arr)],
                     result    |-> Append(st.result, Picked(Head(arr))),
                     takenIds  |-> st.takenIds \cup {Head(arr)._id}], limit)
             ELSE RoundRobinSameSubject(i + 1, subjects, st, limit)

\* pass 1: the loop over the shuffled subjects, from index i
RECURSIVE RoundRobin(_, _, _, _)
RoundRobin(i, subjects, st, limit) ==
  IF ~(i <= Len(subjects) /\ LessThan(Len(st.result), limit)) THEN st
  ELSE LET b   == CHOOSE k \in DOMAIN st.bySubject : st.bySubject[k].key = subjects[i]
           arr == st.bySubject[b].arr
       IN  IF Len(arr) > 0
             THEN LET cand    == Head(arr)
                      shifted == [st.bySubject EXCEPT ![b].arr = Tail(arr)]
                  IN  IF cand._id \notin st.takenIds
                        THEN RoundRobin(i + 1, subjects,
                               [bySubject |-> shifted,
                                result    |-> Append(st.result, Picked(cand)),
                                takenIds  |-> st.takenIds \cup {cand._id}], limit)
                        ELSE RoundRobin(i + 1, subjects,
                               [st EXCEPT !.bySubject = shifted], limit)
             ELSE RoundRobin(i + 1, subjects, st, limit)

\* pass 2: the cards left in the buckets, over Object.values(bySubject), that
\* are not taken
RECURSIVE Remaining(_, _)
Remaining(bySubject, takenIds) ==
  IF bySubject = <<>> THEN <<>>
  ELSE SelectSeq(Head(bySubject).arr, LAMBDA c : c._id \notin takenIds)
         \o Remaining(Tail(bySubject), takenIds)

\* pass 2: the loop over the shuffled remaining cards
RECURSIVE Fill(_, _, _)
Fill(remaining, st, limit) ==
  IF remaining = <<>> \/ AtLeast(Len(st.result), limit) THEN st
  ELSE Fill(Tail(remaining),
            [st EXCEPT !.result   = Append(@, Picked(Head(remaining))),
                       !.takenIds = @ \cup {Head(remaining)._id}], limit)

\* what pass 1 can leave behind: the buckets and the subject list shuffled,
\* then the loop
AfterRoundRobin(cards, limit) ==
  LET grouped == GroupBySubject(cards, <<>>)
  IN  {RoundRobin(1, subjects,
                  [bySubject |-> bySubject, result |-> <<>>, takenIds |-> {}], limit) :
         bySubject \in ShuffledBuckets(grouped),
         subjects \in ShuffleOutcomes(KeysOf(grouped))}

\* what pass 2 can leave behind, entered only when result.length < limit
AfterFill(cards, limit) ==
  UNION {IF LessThan(Len(st.result), limit)
           THEN {Fill(remaining, st, limit) :
                   remaining \in ShuffleOutcomes(Remaining(st.bySubject, st.takenIds))}
           ELSE {st} :
         st \in AfterRoundRobin(cards, limit)}

\* the result array after the final shuffle
SampleOutcomes(cards, limit) ==
  UNION {ShuffleOutcomes(result) : result \in {st.result : st \in AfterFill(cards, limit)}}

---------------------------------------------------------------------------
(* Direct calls of inferSubject: the argument is drawn, the call is made *)

\* U+00E9, a letter outside ASCII: one character of the text, not in \w
EAcute == "U+00E9"

\* what the classified texts are assembled from
Pieces ==
  { <<"m","a","s","s">>,
    <<"F","O","R","C","E">>,
    <<"p","h","o","t","o","s","y","n","t","h","e","s","i","s">>,
    <<"c","e","l","l">>,
    <<"a","t","o","m"," ","a","c","i","d">>,
    <<" ">>,
    <<"i","v","e">>,
    <<EAcute>>,
    <<"?">> }

RECURSIVE TextsOf(_)
TextsOf(n) ==
  IF n = 0 THEN {<<>>}
  ELSE LET shorter == TextsOf(n - 1)
       IN  shorter \cup {p \o x : p \in Pieces, x \in shorter}

Texts == TextsOf(MaxPieces)

ClassifyInputs ==
  {Undefined, Null, Num(0), Num(42), Bool(FALSE), Bool(TRUE), Obj}
    \cup {Str(s) : s \in Texts}

NotCalled == [done |-> FALSE, threw |-> FALSE, value |-> ""]

CallOutcome(r) == [done |-> TRUE, threw |-> r.threw, value |-> r.value]

NoResponse == [status |-> 0, op |-> "none", subject |-> "", body |-> <<>>]

NoLocals == [student_id |-> <<>>, rawLimit |-> Undefined, limit |-> Num(0),
             cards |-> <<>>, resultIds |-> <<>>, sampled |-> FALSE]

InitClassify ==
  /\ input \in ClassifyInputs
  /\ out = NotCalled
  /\ db = <<>>
  /\ response = NoResponse
  /\ locals = NoLocals

CallInferSubject ==
  /\ ~out.done
  /\ out' = CallOutcome(inferSubject(input))
  /\ UNCHANGED <<db, response, locals, input>>

NextClassify == CallInferSubject

SpecClassify == InitClassify /\ [][NextClassify]_vars

---------------------------------------------------------------------------
(* The service: POST /flashcard, GET /get-subject *)

(* Each handler awaits the collection once (doc.save(), Flashcard.find()) and
   shares nothing else with another request, so a request is one step, taken
   at its access to the collection; Respond is res.json() reaching the
   client, after which the handler's locals are gone. *)

Student1 == <<"s","1">>
Student2 == <<"s","2">>

\* req.body of POST /flashcard, field by field
BodyStudentIds == {Undefined, Str(<<>>), Str(Student1), Str(Student2)}

Questions ==
  { <<"m","a","s","s","?">>,
    <<"c","e","l","l">>,
    <<"m","a","s","s","i","v","e">> }

BodyQuestions == {Undefined, Num(42)} \cup {Str(q) : q \in Questions}

BodyAnswers == {Undefined, Str(<<"a">>)}

\* req.query of GET /get-subject, field by field
QueryStudentIds == {Undefined, Str(<<" ","s","1"," ">>), Str(Student2)}

QueryLimits ==
  {Undefined, Str(<<"a","b","c">>), Str(<<"0">>), Str(<<"-","3">>),
   Str(<<"2">>), Str(<<"1","0","0","0">>)}

ErrorResponse(op, status) == [status |-> status, op |-> op, subject |-> "", body |-> <<>>]

Init ==
  /\ db = <<>>
  /\ response = NoResponse
  /\ locals = NoLocals
  /\ input = Undefined
  /\ out = NotCalled

\* app.post('/flashcard')
CreateFlashcard ==
  /\ response.status = 0
  /\ Len(db) < MaxCards
  /\ \E student_id \in BodyStudentIds, question \in BodyQuestions, answer \in BodyAnswers :
       \/ /\ ~Truthy(student_id) \/ ~Truthy(question) \/ ~Truthy(answer)
          /\ response' = ErrorResponse("create", 400)
          /\ db' = db
       \/ /\ Truthy(student_id) /\ Truthy(question) /\ Truthy(answer)
          /\ inferSubject(question).threw
          /\ response' = ErrorResponse("create", 500)
          /\ db' = db
       \/ /\ Truthy(student_id) /\ Truthy(question) /\ Truthy(answer)
          /\ ~inferSubject(question).threw
          /\ \E stored \in BOOLEAN :
               LET subject == inferSubject(question).value
                   doc     == NewDocument(student_id, question, answer, subject)
               IN  /\ db' = Saved(doc, stored)
                   /\ response' =
                        IF stored
                          THEN [status |-> 200, op |-> "create", subject |-> subject,
                                body |-> <<>>]
                          ELSE ErrorResponse("create", 500)
  /\ locals' = NoLocals
  /\ UNCHANGED <<input, out>>

\* app.get('/get-subject')
GetSubject ==
  /\ response.status = 0
  /\ \E rawStudent \in QueryStudentIds, rawLimit \in QueryLimits :
       LET student_id == StudentIdOf(rawStudent)
           limit      == LimitOf(rawLimit)
           cards      == Find(student_id)
           entered    == [student_id |-> student_id, rawLimit |-> rawLimit,
                          limit |-> limit, cards |-> <<>>, resultIds |-> <<>>,
                          sampled |-> FALSE]
       IN  \/ /\ student_id = <<>>
              /\ response' = ErrorResponse("retrieve", 400)
              /\ locals' = entered
           \/ /\ student_id # <<>>
              /\ response' = ErrorResponse("retrieve", 500)
              /\ locals' = entered
           \/ /\ student_id # <<>>
              /\ Len(cards) = 0
              /\ response' = [status |-> 200, op |-> "retrieve", subject |-> "",
                              body |-> <<>>]
              /\ locals' = entered
           \/ /\ student_id # <<>>
              /\ Len(cards) # 0
              /\ \E result \in SampleOutcomes(cards, limit) :
                   /\ response' = [status |-> 200, op |-> "retrieve", subject |-> "",
                                   body |-> [i \in DOMAIN result |-> result[i].item]]
                   /\ locals' = [entered EXCEPT
                                   !.cards = cards,
                                   !.resultIds = [i \in DOMAIN result |-> result[i]._id],
                                   !.sampled = TRUE]
  /\ UNCHANGED <<db, input, out>>

\* the response is sent
Respond ==
  /\ response.status # 0
  /\ response' = NoResponse
  /\ locals' = NoLocals
  /\ UNCHANGED <<db, input, out>>

Next == CreateFlashcard \/ GetSubject \/ Respond

Spec == Init /\ [][Next]_vars

---------------------------------------------------------------------------
(* The sampling on a collection drawn directly: the documents of one
   student, written by any writer of the collection, so that a document may
   lack its subject *)

SampleSubjects == {"Physics", "Biology", General, NoSubject}

SampleCollections ==
  UNION {{[i \in 1 .. n |->
             [_id |-> i, student_id |-> Student1, question |-> <<"q">>,
              answer |-> <<"a">>, subject |-> subjects[i], createdAt |-> i]] :
            subjects \in [1 .. n -> SampleSubjects]} :
         n \in 0 .. MaxSample}

InitSampler ==
  /\ db \in SampleCollections
  /\ response = NoResponse
  /\ locals = NoLocals
  /\ input = Undefined
  /\ out = NotCalled

NextSampler == GetSubject \/ Respond

SpecSampler == InitSampler /\ [][NextSampler]_vars

---------------------------------------------------------------------------
(* Claims about the classifier, under SpecClassify *)

SubjectNames == {SUBJECT_KEYWORDS[i].subject : i \in DOMAIN SUBJECT_KEYWORDS}

\* the text a finished call scored
Lowered == ToLowerCase(input.s)

\* the score the code computes for the i-th subject of the lexicon
Score(i) == CountHits(SUBJECT_KEYWORDS[i].keywords, Lowered)

Scored == out.done /\ input.t = "string" /\ Trim(input.s) # <<>>

\* C5: the classifier is total and never raises: every call, whatever the
\* value passed (null, missing, empty, whitespace-only, not a text), returns a
\* label, and that label is "General" for null, missing, empty and
\* whitespace-only input.
C5_ClassifierTotal ==
  out.done =>
    /\ ~out.threw
    /\ out.value \in SubjectNames \cup {General}
    /\ (input.t \in {"undefined", "null"} \/ (input.t = "string" /\ Trim(input.s) = <<>>))
         => out.value = General

\* C6: the score of every subject equals the number of distinct keywords of
\* that subject present in the text: a keyword adds at most 1, however often
\* it occurs in the text and however it is listed in SUBJECT_KEYWORDS.
C6_ScoreCountsDistinctKeywords ==
  Scored =>
    \A i \in DOMAIN SUBJECT_KEYWORDS :
      Score(i) = Cardinality({kw \in Range(SUBJECT_KEYWORDS[i].keywords) :
                               RegExpTest(kw, Lowered)})

\* C7: for a non-blank text the classifier returns "General" when no subject
\* has a positive score, and otherwise the subject with the maximal score
\* that comes first in the declaration order of the lexicon.
C7_MaxScoreFirstDeclared ==
  Scored =>
    LET score == [i \in DOMAIN SUBJECT_KEYWORDS |-> Score(i)]
    IN  /\ ~out.threw
        /\ IF \A i \in DOMAIN score : score[i] = 0
             THEN out.value = General
             ELSE \E i \in DOMAIN score :
                    /\ out.value = SUBJECT_KEYWORDS[i].subject
                    /\ \A j \in DOMAIN score : score[j] <= score[i]
                    /\ \A j \in 1 .. (i - 1) : score[j] < score[i]

\* C7 witness: two subjects tie for the maximal score, a later one among
\* them, and the call returned the first declared of them.
C7_TieResolved ==
  /\ Scored
  /\ LET score == [i \in DOMAIN SUBJECT_KEYWORDS |-> Score(i)]
     IN  \E i, j \in DOMAIN score :
           /\ i < j
           /\ score[i] = score[j]
           /\ score[i] > 0
           /\ \A k \in DOMAIN score : score[k] <= score[i]
           /\ out.value = SUBJECT_KEYWORDS[i].subject

\* a character that continues a word: a letter (of ASCII or not), a digit, "_"
IsWordConstituent(c) == IsWordChar(c) \/ c = EAcute

\* kw occurs in s as a whole word, in any letter case
OccursAsWholeWord(kw, s) ==
  \E p \in 1 .. (Len(s) - Len(kw) + 1) :
    /\ \A k \in DOMAIN kw : ToLowerChar(s[p + k - 1]) = kw[k]
    /\ ~(p > 1 /\ IsWordConstituent(s[p - 1]))
    /\ ~(p + Len(kw) <= Len(s) /\ IsWordConstituent(s[p + Len(kw)]))

\* C8: a keyword counts for its subject only when it occurs in the text as a
\* whole word, in any letter case; an occurrence inside a longer word never
\* counts, so a text without a whole-word keyword is classified "General".
C8_WholeWordOnly ==
  Scored =>
    /\ \A i \in DOMAIN SUBJECT_KEYWORDS :
         \A kw \in Range(SUBJECT_KEYWORDS[i].keywords) :
           RegExpTest(kw, Lowered) <=> OccursAsWholeWord(kw, input.s)
    /\ (\A i \in DOMAIN SUBJECT_KEYWORDS :
          \A kw \in Range(SUBJECT_KEYWORDS[i].keywords) :
            ~OccursAsWholeWord(kw, input.s))
         => out.value = General

---------------------------------------------------------------------------
(* Claims about the service, under Spec and SpecSampler *)

Min(a, b) == IF a <= b THEN a ELSE b

\* a retrieve request that was answered with a list
Retrieved == response.op = "retrieve" /\ response.status = 200

\* the cards stored for the student of the request being answered
CardsOfStudent == SelectSeq(db, LAMBDA c : c.student_id = locals.student_id)

\* s is an optional sign followed by decimal digits only
IsIntegerText(s) ==
  LET digits == IF s # <<>> /\ Head(s) \in {"-", "+"} THEN Tail(s) ELSE s
  IN  digits # <<>> /\ \A i \in DOMAIN digits : digits[i] \in Range(Digits)

RECURSIVE DecimalValue(_)
DecimalValue(digits) ==
  IF digits = <<>> THEN 0
  ELSE 10 * DecimalValue(SubSeq(digits, 1, Len(digits) - 1))
         + DigitValue(digits[Len(digits)])

IntegerValue(s) ==
  IF Head(s) = "-" THEN 0 - DecimalValue(Tail(s))
  ELSE IF Head(s) = "+" THEN DecimalValue(Tail(s))
  ELSE DecimalValue(s)

\* clamp(limit, 1, 100), a missing or non-numeric limit taken as 5
ClampedLimit(rawLimit) ==
  IF rawLimit.t = "string" /\ IsIntegerText(rawLimit.s)
    THEN Min(100, IF IntegerValue(rawLimit.s) < 1 THEN 1 ELSE IntegerValue(rawLimit.s))
    ELSE 5

\* C1: every retrieve request returns min(limit_clamped, number of the
\* student's cards) cards, limit_clamped being clamp(limit, 1, 100) with a
\* missing or non-numeric limit taken as 5; an empty card set returns an
\* empty list.
C1_LengthIsMinOfLimitAndCards ==
  Retrieved =>
    Len(response.body) = Min(ClampedLimit(locals.rawLimit), Len(CardsOfStudent))

\* C4: the limit the sampler works with is an integer of 1..100: the caller's
\* value clamped, and 5 for a missing or non-numeric value.
C4_LimitClamped ==
  response.op = "retrieve" =>
    /\ locals.limit.t = "number"
    /\ locals.limit.n \in 1 .. 100
    /\ locals.limit.n = ClampedLimit(locals.rawLimit)

\* the stored card a returned item was taken from
CardOfId(id) == CHOOSE c \in Range(db) : c._id = id

\* the subjects the returned cards were drawn from, a missing one as "General"
DrawnSubjects == {BucketKey(CardOfId(locals.resultIds[i])) : i \in DOMAIN locals.resultIds}

\* the subjects the student's cards span
SpannedSubjects == {BucketKey(c) : c \in Range(CardsOfStudent)}

\* C2: for a numeric limit and a card set spanning k subjects (a missing
\* subject counted as "General"), the result draws from exactly
\* min(limit_clamped, k) subjects under every outcome of the shuffles: every
\* subject is represented when limit_clamped >= k, and the returned cards are
\* of pairwise different subjects when limit_clamped <= k.
C2_SubjectDiversity ==
  (Retrieved /\ locals.sampled /\ locals.limit.t = "number") =>
    LET k == Cardinality(SpannedSubjects)
        limit == locals.limit.n
        ids == locals.resultIds
    IN  /\ Cardinality(DrawnSubjects) = Min(limit, k)
        /\ limit >= k => DrawnSubjects = SpannedSubjects
        /\ limit <= k =>
             \A i, j \in DOMAIN ids :
               i # j => BucketKey(CardOfId(ids[i])) # BucketKey(CardOfId(ids[j]))

\* C2 witness: more cards than the limit, the limit equal to the number of
\* subjects, a card without subject among the cards, and one card of each
\* subject returned.
C2_OnePerSubject ==
  /\ Retrieved /\ locals.sampled
  /\ locals.limit = Num(2)
  /\ Len(CardsOfStudent) > 2
  /\ Cardinality(SpannedSubjects) = 2
  /\ \E c \in Range(CardsOfStudent) : c.subject = NoSubject
  /\ Cardinality(DrawnSubjects) = 2
  /\ Len(response.body) = 2

\* C3: no stored card appears twice in one result, whatever the cards, the
\* limit and the shuffles: the _id values of the returned cards are pairwise
\* different.
C3_NoDuplicateCards ==
  (Retrieved /\ locals.sampled) =>
    /\ Len(locals.resultIds) = Len(response.body)
    /\ \A i, j \in DOMAIN locals.resultIds :
         i # j => locals.resultIds[i] # locals.resultIds[j]

\* C3 witness: a result that took cards in both passes: more cards returned
\* than there are subjects.
C3_BothPasses ==
  /\ Retrieved /\ locals.sampled
  /\ Cardinality(SpannedSubjects) >= 2
  /\ Len(response.body) > Cardinality(SpannedSubjects)

\* the classifier's result on each question a create request can carry
SubjectOfQuestion == [q \in Questions |-> inferSubject(Str(q))]

C9_SubjectsStored ==
  \A i \in DOMAIN db :
    /\ db[i].subject \in SubjectNames \cup {General}
    /\ db[i].question \in Questions
    /\ ~SubjectOfQuestion[db[i].question].threw
    /\ db[i].subject = SubjectOfQuestion[db[i].question].value

\* a step keeps the stored cards, and stores one only with a 200 to a create
C9_SubjectsKept ==
  /\ Len(db') >= Len(db)
  /\ \A i \in DOMAIN db : db'[i] = db[i]
  /\ (response'.op = "create" /\ response'.status # 200) => db' = db
  /\ (response'.op = "create" /\ response'.status = 200) =>
       /\ Len(db') = Len(db) + 1
       /\ response'.subject = db'[Len(db')].subject

\* C9: in every reachable state every stored card has one subject, a subject
\* name of the lexicon or "General", equal to the classifier's result on the
\* card's question; no request changes a stored card, and a create request
\* that fails stores no card.
C9_SubjectAssignedOnce == [](C9_SubjectsStored) /\ [][C9_SubjectsKept]_vars

\* C9 witness: cards of a lexicon subject and of "General" are stored, and a
\* later create request has failed.
C9_FailedCreateAfterStores ==
  /\ \E i, j \in DOMAIN db : db[i].subject \in SubjectNames /\ db[j].subject = General
  /\ response.op = "create"
  /\ response.status = 500

\* the items of a list are projections of the student's stored cards
C10_ItemsAreProjections ==
  Retrieved =>
    /\ Len(locals.resultIds) = Len(response.body)
    /\ \A i \in DOMAIN response.body :
         /\ DOMAIN response.body[i] = {"question", "answer", "subject"}
         /\ \E c \in Range(db) :
              /\ c._id = locals.resultIds[i]
              /\ c.student_id = locals.student_id
              /\ response.body[i].question = c.question
              /\ response.body[i].answer = c.answer
              /\ response.body[i].subject = c.subject

\* a step that answers a retrieve request leaves the collection as it was
C10_RetrieveReadsOnly == response'.op = "retrieve" => db' = db

\* C10: every item a retrieve request for student S returns is the
\* {question, answer, subject} projection of a card stored for S: no card of
\* another student, no other field, and the stored cards are left unchanged.
C10_OwnCardsOnly == [](C10_ItemsAreProjections) /\ [][C10_RetrieveReadsOnly]_vars

\* C10 witness: both students have cards, and a request for the first
\* returned some of its cards.
C10_TwoStudents ==
  /\ Retrieved
  /\ locals.student_id = Student1
  /\ Len(response.body) >= 2
  /\ \E c \in Range(db) : c.student_id = Student2

====
